---- MODULE Spec2Model ----
(***************************************************************************)
(* Unix socket proxies of pkg/services/unix_proxy.go.                      *)
(*                                                                         *)
(* UnixProxyServiceInbound listens on a Unix socket and forwards every     *)
(* accepted connection over the Receptor network; UnixProxyServiceOutbound *)
(* listens on the Receptor network and forwards every accepted connection  *)
(* to a Unix socket.  Each director is a constructor followed by one       *)
(* accept-loop goroutine.  The model keeps the position of every           *)
(* constructor and accept loop, the file lock and listener of every        *)
(* director and the two connections of every accepted session.  SpecSetup  *)
(* adds the setup and Run methods that build the directors from their      *)
(* configuration objects, FairBridge one call of utils.BridgeConns.        *)
(***************************************************************************)
EXTENDS Integers, FiniteSets, Sequences, TLC

\* Number of connections the environment delivers, over all listeners.
MaxConns == 3

\* Two inbound proxies configured on the same socket file and one outbound proxy.
InProxies == {"in1", "in2"}
OutProxies == {"out1"}
Directors == InProxies \cup OutProxies

\* The filename argument of each director.
Filename(d) == IF d \in InProxies THEN "/run/in.sock" ELSE "/run/out.sock"

ConnIds == 1..MaxConns

\* Longest byte sequence side A of a bridged session sends, and longest one
\* side B sends back.
MaxLen == 2
MaxLenBack == 1

\* The longest sequence the given side sends.
MaxLenOf(x) == IF x = "A" THEN MaxLen ELSE MaxLenBack

\* The byte values and the two sides of a bridged session.
Bytes == {0, 1}
Sides == {"A", "B"}
Other(x) == IF x = "A" THEN "B" ELSE "A"

\* The sequences over Bytes of length at most n.
SeqsUpTo(n) == UNION {[1..k -> Bytes] : k \in 0..n}

\* perms := 0o600, the default of UnixInProxy.setup.
DefaultPermissions == 384

\* The permission values a configuration may carry (0o644, 0o777); NoPerm is a
\* nil Permissions pointer, NoMode a call that has not been made.
PermValues == {420, 511}
NoPerm == -1
NoMode == -2

\* os.FileMode(perms): the conversion of an int to the 32-bit FileMode keeps the
\* low 32 bits, here put together from the two 16-bit halves.
FileMode(n) == ((n \div 65536) % 65536) * 65536 + (n % 65536)

\* The configuration objects.  via is the entry point that builds the director
\* (UnixInProxy.setup / UnixOutProxy.setup, or the Run method of the cmdline
\* object); missing names the required field left empty; perms is the
\* Permissions field; tls tells whether the TLS configuration resolves.  The
\* cmdline objects reach Run only with their required:"true" fields set and
\* with Permissions filled in.
InboundConfigs ==
    [via : {"setup"}, missing : {"none", "file", "node", "service"},
     perms : PermValues \cup {NoPerm}, tls : BOOLEAN]
    \cup [via : {"Run"}, missing : {"none"}, perms : PermValues, tls : BOOLEAN]

OutboundConfigs ==
    [via : {"setup"}, missing : {"none", "file", "service"}, perms : {NoPerm}, tls : BOOLEAN]
    \cup [via : {"Run"}, missing : {"none"}, perms : {NoPerm}, tls : BOOLEAN]

\* A complete configuration without a permissions value, whose TLS resolves.
PlainConfig == [via |-> "setup", missing |-> "none", perms |-> NoPerm, tls |-> TRUE]

VARIABLES
    ctor,       \* position of each constructor call
    ctorErr,    \* the error the constructor returned ("none" while it has not)
    sawHeld,    \* whether the socket file was locked when UnixSocketListen was called
    loop,       \* position of each accept-loop goroutine
    lis,        \* the listener (uli / qli) of each director
    held,       \* whether the director holds the file lock (lock)
    unlocks,    \* number of lock.Unlock() calls made by the director
    acceptErr,  \* whether Accept has returned an error to the director
    cur,        \* outbound: the accepted connection the loop is dialing for (0: none)
    conns,      \* per delivered connection: who accepted it and its session
    nconn,      \* number of connections delivered so far
    cfg,        \* the configuration object each director is built from
    permissions,\* the permissions argument of UnixProxyServiceInbound
    lockMode,   \* the permissions UnixSocketListen was called with
    advert,     \* the metadata map passed to ListenAndAdvertise, as key/value pairs
    dials,      \* number of dial calls made for each accepted connection
    bridged,    \* the pairs <<accepted connection, dialing session>> given to BridgeConns
    \* One call BridgeConns(A, B) in detail, each variable indexed by the side:
    S,          \* the bytes the peer of the side is going to send
    sent,       \* how many of them it has written
    inq,        \* bytes written by the peer and not yet read by the bridge
    buf,        \* the chunk the bridge has read from the side and not yet written
    recv,       \* the bytes the peer of the side has received
    peer,       \* the peer's end: "open", "eof" (closed) or "err"
    conn,       \* the connection the bridge holds: "open" or "closed"
    half        \* the copy direction reading from the side: "copying" or "ended"

dirVars == <<ctor, ctorErr, sawHeld, loop, lis, held, unlocks, acceptErr, cur, conns, nconn,
             cfg, permissions, lockMode, advert, dials, bridged>>

brVars == <<S, sent, inq, buf, recv, peer, conn, half>>

vars == <<dirVars, brVars>>

\* A connection not delivered yet.  acc is the accepted connection (uc inbound,
\* qc outbound), dld the dialed one (qc inbound, uc outbound), st the position of
\* the code handling the session.
NoConn == [dir |-> "-", acc |-> "none", dld |-> "none", st |-> "none"]

TypeOK ==
    /\ ctor \in [Directors -> {"config", "idle", "listened", "returnedErr", "returnedNil"}]
    /\ ctorErr \in [Directors ->
                       {"none", "TLSError", "AlreadyInUse", "IOError", "ListenError"}]
    /\ sawHeld \in [Directors -> BOOLEAN]
    /\ loop \in [Directors -> {"none", "accept", "dial", "stopped"}]
    /\ lis \in [Directors -> {"none", "open", "closed"}]
    /\ held \in [Directors -> BOOLEAN]
    /\ unlocks \in [Directors -> 0..2]
    /\ acceptErr \in [Directors -> BOOLEAN]
    /\ cur \in [Directors -> 0..MaxConns]
    /\ conns \in [ConnIds -> [dir : Directors \cup {"-"},
                              acc : {"none", "open", "closed"},
                              dld : {"none", "open", "closed"},
                              st  : {"none", "dialing", "dialFailed", "bridging", "done"}]]
    /\ nconn \in 0..MaxConns
    /\ \A p \in InProxies : cfg[p] \in InboundConfigs
    /\ \A o \in OutProxies : cfg[o] \in OutboundConfigs
    /\ permissions \in [Directors -> PermValues \cup {DefaultPermissions, NoMode}]
    /\ lockMode \in [Directors -> PermValues \cup {DefaultPermissions, NoMode}]
    /\ \A d \in Directors : advert[d] \subseteq (STRING \X STRING)
    /\ dials \in [ConnIds -> 0..2]
    /\ bridged \subseteq (ConnIds \X ConnIds)
    /\ S \in [Sides -> SeqsUpTo(MaxLen)]
    /\ \A x \in Sides : Len(S[x]) <= MaxLenOf(x)
    /\ sent \in [Sides -> 0..MaxLen]
    /\ inq \in [Sides -> SeqsUpTo(MaxLen)]
    /\ buf \in [Sides -> SeqsUpTo(MaxLen)]
    /\ recv \in [Sides -> SeqsUpTo(MaxLen)]
    /\ peer \in [Sides -> {"open", "eof", "err"}]
    /\ conn \in [Sides -> {"open", "closed"}]
    /\ half \in [Sides -> {"copying", "ended"}]

\* No director built, no connection delivered.
Idle ==
    /\ ctorErr = [d \in Directors |-> "none"]
    /\ sawHeld = [d \in Directors |-> FALSE]
    /\ loop = [d \in Directors |-> "none"]
    /\ lis = [d \in Directors |-> "none"]
    /\ held = [d \in Directors |-> FALSE]
    /\ unlocks = [d \in Directors |-> 0]
    /\ acceptErr = [d \in Directors |-> FALSE]
    /\ cur = [d \in Directors |-> 0]
    /\ conns = [c \in ConnIds |-> NoConn]
    /\ nconn = 0
    /\ lockMode = [d \in Directors |-> NoMode]
    /\ advert = [d \in Directors |-> {}]
    /\ dials = [c \in ConnIds |-> 0]
    /\ bridged = {}

\* No bridge in detail.
NoBridge ==
    /\ S = [x \in Sides |-> <<>>]
    /\ sent = [x \in Sides |-> 0]
    /\ inq = [x \in Sides |-> <<>>]
    /\ buf = [x \in Sides |-> <<>>]
    /\ recv = [x \in Sides |-> <<>>]
    /\ peer = [x \in Sides |-> "open"]
    /\ conn = [x \in Sides |-> "open"]
    /\ half = [x \in Sides |-> "copying"]

\* Every director is about to be built by UnixProxyServiceInbound/Outbound from a
\* complete configuration: inbound with the default permissions.
Init ==
    /\ NoBridge
    /\ ctor = [d \in Directors |-> "idle"]
    /\ ctorErr = [d \in Directors |-> "none"]
    /\ sawHeld = [d \in Directors |-> FALSE]
    /\ loop = [d \in Directors |-> "none"]
    /\ lis = [d \in Directors |-> "none"]
    /\ held = [d \in Directors |-> FALSE]
    /\ unlocks = [d \in Directors |-> 0]
    /\ acceptErr = [d \in Directors |-> FALSE]
    /\ cur = [d \in Directors |-> 0]
    /\ conns = [c \in ConnIds |-> NoConn]
    /\ nconn = 0
    /\ cfg = [d \in Directors |-> PlainConfig]
    /\ permissions = [d \in Directors |->
                         IF d \in InProxies THEN DefaultPermissions ELSE NoMode]
    /\ lockMode = [d \in Directors |-> NoMode]
    /\ advert = [d \in Directors |-> {}]
    /\ dials = [c \in ConnIds |-> 0]
    /\ bridged = {}

\* Whether some director holds the lock of the socket file f.
Locked(f) == \E q \in Directors : held[q] /\ Filename(q) = f

(***************************************************************************)
(* utils.UnixSocketListen(filename, permissions): the exclusive            *)
(* acquisition of the socket file.  It fails at once with AlreadyInUse     *)
(* when the file is locked, with an IOError when the filesystem refuses    *)
(* (io), and otherwise returns the listener and the held lock.             *)
(***************************************************************************)
UnixSocketListenNoLock(p, io) == IF io THEN "IOError" ELSE "ok"

UnixSocketListen(p, io) ==
    IF Locked(Filename(p)) THEN "AlreadyInUse"
    ELSE IF io THEN "IOError" ELSE "ok"

(***************************************************************************)
(* UnixProxyServiceInbound, lines 22-25: call UnixSocketListen with the     *)
(* filename and permissions arguments; on error return it to the caller,   *)
(* before any goroutine is started.  An empty filename is a path the       *)
(* filesystem refuses.                                                     *)
(***************************************************************************)
InboundListenGoFirst(p) ==
    /\ ctor[p] = "idle"
    /\ lockMode' = [lockMode EXCEPT ![p] = permissions[p]]
    /\ \E io \in BOOLEAN :
         LET r == UnixSocketListen(p, io) IN
           /\ cfg[p].missing = "file" => io
           /\ sawHeld' = [sawHeld EXCEPT ![p] = Locked(Filename(p))]
           /\ loop' = [loop EXCEPT ![p] = "accept"]
           /\ IF r = "ok"
              THEN /\ ctor' = [ctor EXCEPT ![p] = "listened"]
                   /\ held' = [held EXCEPT ![p] = TRUE]
                   /\ lis' = [lis EXCEPT ![p] = "open"]
                   /\ UNCHANGED ctorErr
              ELSE /\ ctor' = [ctor EXCEPT ![p] = "returnedErr"]
                   /\ ctorErr' = [ctorErr EXCEPT ![p] = r]
                   /\ UNCHANGED <<held, lis>>
    /\ UNCHANGED <<unlocks, acceptErr, cur, conns, nconn>>
    /\ UNCHANGED <<cfg, permissions, advert, dials, bridged>>
    /\ UNCHANGED brVars

InboundListen(p) ==
    /\ ctor[p] = "idle"
    /\ lockMode' = [lockMode EXCEPT ![p] = permissions[p]]
    /\ \E io \in BOOLEAN :
         LET r == UnixSocketListen(p, io) IN
           /\ cfg[p].missing = "file" => io
           /\ sawHeld' = [sawHeld EXCEPT ![p] = Locked(Filename(p))]
           /\ IF r = "ok"
              THEN /\ ctor' = [ctor EXCEPT ![p] = "listened"]
                   /\ held' = [held EXCEPT ![p] = TRUE]
                   /\ lis' = [lis EXCEPT ![p] = "open"]
                   /\ UNCHANGED ctorErr
              ELSE /\ ctor' = [ctor EXCEPT ![p] = "returnedErr"]
                   /\ ctorErr' = [ctorErr EXCEPT ![p] = r]
                   /\ UNCHANGED <<held, lis>>
    /\ UNCHANGED <<loop, unlocks, acceptErr, cur, conns, nconn>>
    /\ UNCHANGED <<cfg, permissions, advert, dials, bridged>>
    /\ UNCHANGED brVars

(***************************************************************************)
(* UnixProxyServiceInbound, lines 26 and 47: start the accept-loop         *)
(* goroutine and return nil.                                               *)
(***************************************************************************)
InboundGo(p) ==
    /\ ctor[p] = "listened"
    /\ ctor' = [ctor EXCEPT ![p] = "returnedNil"]
    /\ loop' = [loop EXCEPT ![p] = "accept"]
    /\ UNCHANGED <<ctorErr, sawHeld, lis, held, unlocks, acceptErr, cur, conns, nconn>>
    /\ UNCHANGED <<cfg, permissions, lockMode, advert, dials, bridged>>
    /\ UNCHANGED brVars

(***************************************************************************)
(* Inbound accept loop, lines 29 and 35-36: uli.Accept() returns a         *)
(* connection uc; a goroutine is started for it, which calls s.Dial; the   *)
(* loop is back at Accept.                                                 *)
(***************************************************************************)
InboundAcceptInline(p) ==
    /\ p \in InProxies
    /\ loop[p] = "accept"
    /\ nconn < MaxConns
    /\ nconn' = nconn + 1
    /\ conns' = [conns EXCEPT ![nconn + 1] =
                    [dir |-> p, acc |-> "open", dld |-> "none", st |-> "dialing"]]
    /\ dials' = [dials EXCEPT ![nconn + 1] = @ + 1]
    /\ loop' = [loop EXCEPT ![p] = "dial"]
    /\ cur' = [cur EXCEPT ![p] = nconn + 1]
    /\ UNCHANGED <<ctor, ctorErr, sawHeld, lis, held, unlocks, acceptErr>>
    /\ UNCHANGED <<cfg, permissions, lockMode, advert, bridged>>
    /\ UNCHANGED brVars

InboundAccept(p) ==
    /\ p \in InProxies
    /\ loop[p] = "accept"
    /\ nconn < MaxConns
    /\ nconn' = nconn + 1
    /\ conns' = [conns EXCEPT ![nconn + 1] =
                    [dir |-> p, acc |-> "open", dld |-> "none", st |-> "dialing"]]
    /\ dials' = [dials EXCEPT ![nconn + 1] = @ + 1]
    /\ UNCHANGED <<ctor, ctorErr, sawHeld, loop, lis, held, unlocks, acceptErr, cur>>
    /\ UNCHANGED <<cfg, permissions, lockMode, advert, bridged>>
    /\ UNCHANGED brVars

(***************************************************************************)
(* lock.Unlock(), the release handle returned by UnixSocketListen: it      *)
(* deletes the lock and closes the listener.  Gives the new values of      *)
(* <<held[p], lis[p]>>.                                                    *)
(***************************************************************************)
UnlockKeepsListener(p) == <<FALSE, lis[p]>>

Unlock(p) == <<FALSE, "closed">>

(***************************************************************************)
(* Inbound accept loop, lines 29-34 with the deferred call of line 27:     *)
(* uli.Accept() returns an error; the goroutine returns and its deferred   *)
(* lock.Unlock() runs.                                                     *)
(***************************************************************************)
InboundAcceptErrorNoDefer(p) ==
    /\ p \in InProxies
    /\ loop[p] = "accept"
    /\ loop' = [loop EXCEPT ![p] = "stopped"]
    /\ acceptErr' = [acceptErr EXCEPT ![p] = TRUE]
    /\ UNCHANGED <<ctor, ctorErr, sawHeld, lis, held, unlocks, cur, conns, nconn>>
    /\ UNCHANGED <<cfg, permissions, lockMode, advert, dials, bridged>>
    /\ UNCHANGED brVars

InboundAcceptErrorContinue(p) ==
    /\ p \in InProxies
    /\ loop[p] = "accept"
    /\ ~acceptErr[p]
    /\ acceptErr' = [acceptErr EXCEPT ![p] = TRUE]
    /\ UNCHANGED <<ctor, ctorErr, sawHeld, loop, lis, held, unlocks, cur, conns, nconn>>
    /\ UNCHANGED <<cfg, permissions, lockMode, advert, dials, bridged>>
    /\ UNCHANGED brVars

InboundAcceptErrorCancels(p) ==
    /\ p \in InProxies
    /\ loop[p] = "accept"
    /\ loop' = [loop EXCEPT ![p] = "stopped"]
    /\ acceptErr' = [acceptErr EXCEPT ![p] = TRUE]
    /\ held' = [held EXCEPT ![p] = Unlock(p)[1]]
    /\ lis' = [lis EXCEPT ![p] = Unlock(p)[2]]
    /\ unlocks' = [unlocks EXCEPT ![p] = @ + 1]
    /\ conns' = [c \in ConnIds |->
                    IF conns[c].dir = p /\ conns[c].st \in {"dialing", "bridging"}
                    THEN [conns[c] EXCEPT !.st = "done", !.acc = "closed",
                              !.dld = IF @ = "open" THEN "closed" ELSE @]
                    ELSE conns[c]]
    /\ UNCHANGED <<ctor, ctorErr, sawHeld, cur, nconn>>
    /\ UNCHANGED <<cfg, permissions, lockMode, advert, dials, bridged>>
    /\ UNCHANGED brVars

InboundAcceptError(p) ==
    /\ p \in InProxies
    /\ loop[p] = "accept"
    /\ loop' = [loop EXCEPT ![p] = "stopped"]
    /\ acceptErr' = [acceptErr EXCEPT ![p] = TRUE]
    /\ held' = [held EXCEPT ![p] = Unlock(p)[1]]
    /\ lis' = [lis EXCEPT ![p] = Unlock(p)[2]]
    /\ unlocks' = [unlocks EXCEPT ![p] = @ + 1]
    /\ UNCHANGED <<ctor, ctorErr, sawHeld, cur, conns, nconn>>
    /\ UNCHANGED <<cfg, permissions, lockMode, advert, dials, bridged>>
    /\ UNCHANGED brVars

(***************************************************************************)
(* Inbound connection goroutine, lines 36-41: s.Dial returns an error; it  *)
(* is logged and the goroutine returns.  uc is not touched.                *)
(***************************************************************************)
InboundDialFail(c) ==
    /\ conns[c].dir \in InProxies
    /\ conns[c].st = "dialing"
    /\ conns' = [conns EXCEPT ![c].st = "dialFailed"]
    /\ UNCHANGED <<ctor, ctorErr, sawHeld, loop, lis, held, unlocks, acceptErr, cur, nconn>>
    /\ UNCHANGED <<cfg, permissions, lockMode, advert, dials, bridged>>
    /\ UNCHANGED brVars

(***************************************************************************)
(* Inbound connection goroutine, lines 36 and 42: s.Dial returns the       *)
(* connection qc and the goroutine calls utils.BridgeConns(uc, qc).        *)
(***************************************************************************)
\* The variable uc the connection goroutine of session c refers to: uc is
\* declared by := inside the loop body (line 29), so the goroutine started in
\* that iteration (line 35) captures the connection accepted in it.
UcShared(c) ==
    CHOOSE a \in ConnIds :
        /\ conns[a].dir = conns[c].dir
        /\ \A b \in ConnIds : conns[b].dir = conns[c].dir => b <= a

Uc(c) == c

InboundDialOk(c) ==
    /\ conns[c].dir \in InProxies
    /\ conns[c].st = "dialing"
    /\ conns' = [conns EXCEPT ![c].st = "bridging", ![c].dld = "open"]
    /\ bridged' = bridged \cup {<<Uc(c), c>>}
    /\ UNCHANGED <<ctor, ctorErr, sawHeld, loop, lis, held, unlocks, acceptErr, cur, nconn>>
    /\ UNCHANGED <<cfg, permissions, lockMode, advert, dials>>
    /\ UNCHANGED brVars

(***************************************************************************)
(* UnixProxyServiceOutbound, lines 52-58: s.ListenAndAdvertise either      *)
(* returns the listener qli or fails; the failure is returned to the       *)
(* caller before any goroutine is started.                                 *)
(***************************************************************************)
\* The filename argument as configured: empty when the field is missing.
FilenameArg(d) == IF cfg[d].missing = "file" THEN "" ELSE Filename(d)

\* The metadata map of lines 52-55.
MetadataTypeOnly(o) == {<<"type", "Unix Proxy">>}

Metadata(o) == {<<"type", "Unix Proxy">>, <<"filename", FilenameArg(o)>>}

OutboundListen(o) ==
    /\ ctor[o] = "idle"
    /\ \E ok \in BOOLEAN :
         IF ok
         THEN /\ ctor' = [ctor EXCEPT ![o] = "listened"]
              /\ lis' = [lis EXCEPT ![o] = "open"]
              /\ advert' = [advert EXCEPT ![o] = Metadata(o)]
              /\ UNCHANGED ctorErr
         ELSE /\ ctor' = [ctor EXCEPT ![o] = "returnedErr"]
              /\ ctorErr' = [ctorErr EXCEPT ![o] = "ListenError"]
              /\ UNCHANGED <<lis, advert>>
    /\ UNCHANGED <<sawHeld, loop, held, unlocks, acceptErr, cur, conns, nconn>>
    /\ UNCHANGED <<cfg, permissions, lockMode, dials, bridged>>
    /\ UNCHANGED brVars

(***************************************************************************)
(* UnixProxyServiceOutbound, lines 59 and 77: start the accept-loop        *)
(* goroutine and return nil.                                               *)
(***************************************************************************)
OutboundGo(o) ==
    /\ ctor[o] = "listened"
    /\ ctor' = [ctor EXCEPT ![o] = "returnedNil"]
    /\ loop' = [loop EXCEPT ![o] = "accept"]
    /\ UNCHANGED <<ctorErr, sawHeld, lis, held, unlocks, acceptErr, cur, conns, nconn>>
    /\ UNCHANGED <<cfg, permissions, lockMode, advert, dials, bridged>>
    /\ UNCHANGED brVars

(***************************************************************************)
(* Outbound accept loop, lines 61 and 67: qli.Accept() returns a           *)
(* connection qc and the loop itself calls net.Dial("unix", filename).     *)
(***************************************************************************)
OutboundAccept(o) ==
    /\ o \in OutProxies
    /\ loop[o] = "accept"
    /\ nconn < MaxConns
    /\ nconn' = nconn + 1
    /\ conns' = [conns EXCEPT ![nconn + 1] =
                    [dir |-> o, acc |-> "open", dld |-> "none", st |-> "dialing"]]
    /\ dials' = [dials EXCEPT ![nconn + 1] = @ + 1]
    /\ loop' = [loop EXCEPT ![o] = "dial"]
    /\ cur' = [cur EXCEPT ![o] = nconn + 1]
    /\ UNCHANGED <<ctor, ctorErr, sawHeld, lis, held, unlocks, acceptErr>>
    /\ UNCHANGED <<cfg, permissions, lockMode, advert, bridged>>
    /\ UNCHANGED brVars

(***************************************************************************)
(* Outbound accept loop, lines 61-66: qli.Accept() returns an error; it is *)
(* logged and the goroutine returns.                                       *)
(***************************************************************************)
OutboundAcceptErrorStopsAll(o) ==
    /\ o \in OutProxies
    /\ loop[o] = "accept"
    /\ loop' = [d \in Directors |-> IF loop[d] = "none" THEN "none" ELSE "stopped"]
    /\ acceptErr' = [acceptErr EXCEPT ![o] = TRUE]
    /\ UNCHANGED <<ctor, ctorErr, sawHeld, lis, held, unlocks, cur, conns, nconn>>
    /\ UNCHANGED <<cfg, permissions, lockMode, advert, dials, bridged>>
    /\ UNCHANGED brVars

OutboundAcceptError(o) ==
    /\ o \in OutProxies
    /\ loop[o] = "accept"
    /\ loop' = [loop EXCEPT ![o] = "stopped"]
    /\ acceptErr' = [acceptErr EXCEPT ![o] = TRUE]
    /\ UNCHANGED <<ctor, ctorErr, sawHeld, lis, held, unlocks, cur, conns, nconn>>
    /\ UNCHANGED <<cfg, permissions, lockMode, advert, dials, bridged>>
    /\ UNCHANGED brVars

(***************************************************************************)
(* Outbound accept loop, lines 67-72: net.Dial returns an error; it is     *)
(* logged and the loop continues with the next Accept.  qc is not touched. *)
(***************************************************************************)
OutboundDialFailReturn(o) ==
    /\ o \in OutProxies
    /\ loop[o] = "dial"
    /\ conns' = [conns EXCEPT ![cur[o]].st = "dialFailed"]
    /\ loop' = [loop EXCEPT ![o] = "stopped"]
    /\ cur' = [cur EXCEPT ![o] = 0]
    /\ UNCHANGED <<ctor, ctorErr, sawHeld, lis, held, unlocks, acceptErr, nconn>>
    /\ UNCHANGED <<cfg, permissions, lockMode, advert, dials, bridged>>
    /\ UNCHANGED brVars

OutboundDialFail(o) ==
    /\ o \in OutProxies
    /\ loop[o] = "dial"
    /\ conns' = [conns EXCEPT ![cur[o]].st = "dialFailed"]
    /\ loop' = [loop EXCEPT ![o] = "accept"]
    /\ cur' = [cur EXCEPT ![o] = 0]
    /\ UNCHANGED <<ctor, ctorErr, sawHeld, lis, held, unlocks, acceptErr, nconn>>
    /\ UNCHANGED <<cfg, permissions, lockMode, advert, dials, bridged>>
    /\ UNCHANGED brVars

(***************************************************************************)
(* Outbound accept loop, lines 67 and 73: net.Dial returns the connection  *)
(* uc; a goroutine running utils.BridgeConns(qc, uc) is started and the    *)
(* loop continues with the next Accept.                                    *)
(***************************************************************************)
OutboundDialOk(o) ==
    /\ o \in OutProxies
    /\ loop[o] = "dial"
    /\ conns' = [conns EXCEPT ![cur[o]].st = "bridging", ![cur[o]].dld = "open"]
    /\ bridged' = bridged \cup {<<cur[o], cur[o]>>}
    /\ loop' = [loop EXCEPT ![o] = "accept"]
    /\ cur' = [cur EXCEPT ![o] = 0]
    /\ UNCHANGED <<ctor, ctorErr, sawHeld, lis, held, unlocks, acceptErr, nconn>>
    /\ UNCHANGED <<cfg, permissions, lockMode, advert, dials>>
    /\ UNCHANGED brVars

(***************************************************************************)
(* utils.BridgeConns returns: one direction saw end-of-stream or an error, *)
(* both connections it was given are closed.  Nothing is returned to the   *)
(* director.                                                               *)
(***************************************************************************)
BridgeConns(c) ==
    /\ conns[c].st = "bridging"
    /\ \E a \in ConnIds :
         /\ <<a, c>> \in bridged
         /\ conns' = [[conns EXCEPT ![c].st = "done", ![c].dld = "closed"]
                          EXCEPT ![a].acc = "closed"]
    /\ UNCHANGED <<ctor, ctorErr, sawHeld, loop, lis, held, unlocks, acceptErr, cur, nconn>>
    /\ UNCHANGED <<cfg, permissions, lockMode, advert, dials, bridged>>
    /\ UNCHANGED brVars

Next ==
    \/ \E p \in InProxies : InboundListen(p)
    \/ \E p \in InProxies : InboundGo(p)
    \/ \E p \in InProxies : InboundAccept(p)
    \/ \E p \in InProxies : InboundAcceptError(p)
    \/ \E c \in ConnIds : InboundDialFail(c)
    \/ \E c \in ConnIds : InboundDialOk(c)
    \/ \E o \in OutProxies : OutboundListen(o)
    \/ \E o \in OutProxies : OutboundGo(o)
    \/ \E o \in OutProxies : OutboundAccept(o)
    \/ \E o \in OutProxies : OutboundAcceptError(o)
    \/ \E o \in OutProxies : OutboundDialFail(o)
    \/ \E o \in OutProxies : OutboundDialOk(o)
    \/ \E c \in ConnIds : BridgeConns(c)

Spec == Init /\ [][Next]_vars

(***************************************************************************)
(* UnixInProxy.setup, lines 143-162: perms is 0o600 unless Permissions is  *)
(* set; the TLS configuration is resolved and its error returned; then     *)
(* UnixProxyServiceInbound is called with os.FileMode(perms).  No field is *)
(* checked for presence.                                                   *)
(***************************************************************************)
UnixInProxySetupIgnoresPermissions(p) ==
    /\ p \in InProxies
    /\ ctor[p] = "config"
    /\ cfg[p].via = "setup"
    /\ IF cfg[p].tls
       THEN /\ ctor' = [ctor EXCEPT ![p] = "idle"]
            /\ permissions' = [permissions EXCEPT ![p] = FileMode(DefaultPermissions)]
            /\ UNCHANGED ctorErr
       ELSE /\ ctor' = [ctor EXCEPT ![p] = "returnedErr"]
            /\ ctorErr' = [ctorErr EXCEPT ![p] = "TLSError"]
            /\ UNCHANGED permissions
    /\ UNCHANGED <<sawHeld, loop, lis, held, unlocks, acceptErr, cur, conns, nconn>>
    /\ UNCHANGED <<cfg, lockMode, advert, dials, bridged>>
    /\ UNCHANGED brVars

UnixInProxySetup(p) ==
    /\ p \in InProxies
    /\ ctor[p] = "config"
    /\ cfg[p].via = "setup"
    /\ LET perms == IF cfg[p].perms # NoPerm THEN cfg[p].perms ELSE DefaultPermissions IN
         IF cfg[p].tls
         THEN /\ ctor' = [ctor EXCEPT ![p] = "idle"]
              /\ permissions' = [permissions EXCEPT ![p] = FileMode(perms)]
              /\ UNCHANGED ctorErr
         ELSE /\ ctor' = [ctor EXCEPT ![p] = "returnedErr"]
              /\ ctorErr' = [ctorErr EXCEPT ![p] = "TLSError"]
              /\ UNCHANGED permissions
    /\ UNCHANGED <<sawHeld, loop, lis, held, unlocks, acceptErr, cur, conns, nconn>>
    /\ UNCHANGED <<cfg, lockMode, advert, dials, bridged>>
    /\ UNCHANGED brVars

(***************************************************************************)
(* unixProxyInboundCfg.Run, lines 90-99: GetClientTLSConfig is called and  *)
(* its error returned; then UnixProxyServiceInbound is called with         *)
(* os.FileMode(cfg.Permissions).                                           *)
(***************************************************************************)
InboundCfgRun(p) ==
    /\ p \in InProxies
    /\ ctor[p] = "config"
    /\ cfg[p].via = "Run"
    /\ IF cfg[p].tls
       THEN /\ ctor' = [ctor EXCEPT ![p] = "idle"]
            /\ permissions' = [permissions EXCEPT ![p] = FileMode(cfg[p].perms)]
            /\ UNCHANGED ctorErr
       ELSE /\ ctor' = [ctor EXCEPT ![p] = "returnedErr"]
            /\ ctorErr' = [ctorErr EXCEPT ![p] = "TLSError"]
            /\ UNCHANGED permissions
    /\ UNCHANGED <<sawHeld, loop, lis, held, unlocks, acceptErr, cur, conns, nconn>>
    /\ UNCHANGED <<cfg, lockMode, advert, dials, bridged>>
    /\ UNCHANGED brVars

(***************************************************************************)
(* UnixOutProxy.setup, lines 175-182: the TLS configuration is resolved    *)
(* and its error returned; then UnixProxyServiceOutbound is called.  No    *)
(* field is checked for presence.                                          *)
(***************************************************************************)
UnixOutProxySetupIgnoresTLSError(o) ==
    /\ o \in OutProxies
    /\ ctor[o] = "config"
    /\ cfg[o].via = "setup"
    /\ ctor' = [ctor EXCEPT ![o] = "idle"]
    /\ UNCHANGED <<ctorErr, sawHeld, loop, lis, held, unlocks, acceptErr, cur, conns, nconn>>
    /\ UNCHANGED <<cfg, permissions, lockMode, advert, dials, bridged>>
    /\ UNCHANGED brVars

UnixOutProxySetup(o) ==
    /\ o \in OutProxies
    /\ ctor[o] = "config"
    /\ cfg[o].via = "setup"
    /\ IF cfg[o].tls
       THEN /\ ctor' = [ctor EXCEPT ![o] = "idle"]
            /\ UNCHANGED ctorErr
       ELSE /\ ctor' = [ctor EXCEPT ![o] = "returnedErr"]
            /\ ctorErr' = [ctorErr EXCEPT ![o] = "TLSError"]
    /\ UNCHANGED <<sawHeld, loop, lis, held, unlocks, acceptErr, cur, conns, nconn>>
    /\ UNCHANGED <<cfg, permissions, lockMode, advert, dials, bridged>>
    /\ UNCHANGED brVars

(***************************************************************************)
(* unixProxyOutboundCfg.Run, lines 109-117: GetServerTLSConfig is called   *)
(* and its error returned; then UnixProxyServiceOutbound is called.        *)
(***************************************************************************)
OutboundCfgRun(o) ==
    /\ o \in OutProxies
    /\ ctor[o] = "config"
    /\ cfg[o].via = "Run"
    /\ IF cfg[o].tls
       THEN /\ ctor' = [ctor EXCEPT ![o] = "idle"]
            /\ UNCHANGED ctorErr
       ELSE /\ ctor' = [ctor EXCEPT ![o] = "returnedErr"]
            /\ ctorErr' = [ctorErr EXCEPT ![o] = "TLSError"]
    /\ UNCHANGED <<sawHeld, loop, lis, held, unlocks, acceptErr, cur, conns, nconn>>
    /\ UNCHANGED <<cfg, permissions, lockMode, advert, dials, bridged>>
    /\ UNCHANGED brVars

\* The directors are built from arbitrary configuration objects; no connection
\* arrives while they are built.
InitSetup ==
    /\ Idle
    /\ NoBridge
    /\ ctor = [d \in Directors |-> "config"]
    /\ cfg \in [Directors -> InboundConfigs \cup OutboundConfigs]
    /\ \A p \in InProxies : cfg[p] \in InboundConfigs
    /\ \A o \in OutProxies : cfg[o] \in OutboundConfigs
    /\ permissions = [d \in Directors |-> NoMode]

NextSetup ==
    \/ \E p \in InProxies : UnixInProxySetup(p)
    \/ \E p \in InProxies : InboundCfgRun(p)
    \/ \E o \in OutProxies : UnixOutProxySetup(o)
    \/ \E o \in OutProxies : OutboundCfgRun(o)
    \/ \E p \in InProxies : InboundListen(p)
    \/ \E p \in InProxies : InboundGo(p)
    \/ \E o \in OutProxies : OutboundListen(o)
    \/ \E o \in OutProxies : OutboundGo(o)

SpecSetup == InitSetup /\ [][NextSetup]_vars

(***************************************************************************)
(* utils.BridgeConns(A, B) in detail: two copy directions, each reading    *)
(* chunks from one connection and writing them to the other, until one of  *)
(* them sees end-of-stream or an error; then both connections are closed.  *)
(***************************************************************************)

\* The peer of side x writes its next byte.
Send(x) ==
    /\ peer[x] = "open"
    /\ conn[x] = "open"
    /\ sent[x] < Len(S[x])
    /\ sent' = [sent EXCEPT ![x] = @ + 1]
    /\ inq' = [inq EXCEPT ![x] = Append(@, S[x][sent[x] + 1])]
    /\ UNCHANGED <<S, buf, recv, peer, conn, half>>
    /\ UNCHANGED dirVars

\* The peer of side x closes its end, or its connection breaks.
PeerClose(x) ==
    /\ peer[x] = "open"
    /\ \E how \in {"eof", "err"} : peer' = [peer EXCEPT ![x] = how]
    /\ UNCHANGED <<S, sent, inq, buf, recv, conn, half>>
    /\ UNCHANGED dirVars

\* The direction reading from x reads a chunk: some first bytes of what waits.
CopyRead(x) ==
    /\ half[x] = "copying"
    /\ conn[x] = "open"
    /\ peer[x] # "err"
    /\ buf[x] = <<>>
    /\ inq[x] # <<>>
    /\ \E k \in 1..Len(inq[x]) :
         /\ buf' = [buf EXCEPT ![x] = SubSeq(inq[x], 1, k)]
         /\ inq' = [inq EXCEPT ![x] = SubSeq(inq[x], k + 1, Len(inq[x]))]
    /\ UNCHANGED <<S, sent, recv, peer, conn, half>>
    /\ UNCHANGED dirVars

\* The direction reading from x writes its chunk to the other connection, whose
\* peer receives it; the write fails when that connection is closed or broken.
CopyWriteFirstByte(x) ==
    /\ half[x] = "copying"
    /\ buf[x] # <<>>
    /\ buf' = [buf EXCEPT ![x] = <<>>]
    /\ IF conn[Other(x)] = "open" /\ peer[Other(x)] = "open"
       THEN /\ recv' = [recv EXCEPT ![Other(x)] = Append(@, buf[x][1])]
            /\ UNCHANGED half
       ELSE /\ half' = [half EXCEPT ![x] = "ended"]
            /\ UNCHANGED recv
    /\ UNCHANGED <<S, sent, inq, peer, conn>>
    /\ UNCHANGED dirVars

CopyWrite(x) ==
    /\ half[x] = "copying"
    /\ buf[x] # <<>>
    /\ buf' = [buf EXCEPT ![x] = <<>>]
    /\ IF conn[Other(x)] = "open" /\ peer[Other(x)] = "open"
       THEN /\ recv' = [recv EXCEPT ![Other(x)] = @ \o buf[x]]
            /\ UNCHANGED half
       ELSE /\ half' = [half EXCEPT ![x] = "ended"]
            /\ UNCHANGED recv
    /\ UNCHANGED <<S, sent, inq, peer, conn>>
    /\ UNCHANGED dirVars

\* The direction reading from x sees end-of-stream (the peer closed and nothing
\* waits) or an error (the connection broke or was closed).
CopyEnd(x) ==
    /\ half[x] = "copying"
    /\ buf[x] = <<>>
    /\ \/ peer[x] = "eof" /\ inq[x] = <<>>
       \/ peer[x] = "err"
       \/ conn[x] = "closed"
    /\ half' = [half EXCEPT ![x] = "ended"]
    /\ UNCHANGED <<S, sent, inq, buf, recv, peer, conn>>
    /\ UNCHANGED dirVars

\* A direction has ended: both connections are closed, whichever side ended.
TeardownEndedSideOnly ==
    /\ \E x \in Sides : half[x] = "ended" /\ conn[x] = "open"
    /\ conn' = [x \in Sides |-> IF half[x] = "ended" THEN "closed" ELSE conn[x]]
    /\ UNCHANGED <<S, sent, inq, buf, recv, peer, half>>
    /\ UNCHANGED dirVars

Teardown ==
    /\ \E x \in Sides : half[x] = "ended"
    /\ \E x \in Sides : conn[x] = "open"
    /\ conn' = [x \in Sides |-> "closed"]
    /\ UNCHANGED <<S, sent, inq, buf, recv, peer, half>>
    /\ UNCHANGED dirVars

\* One bridged session whose sides send arbitrary byte sequences.
InitBridge ==
    /\ Idle
    /\ ctor = [d \in Directors |-> "idle"]
    /\ cfg = [d \in Directors |-> PlainConfig]
    /\ permissions = [d \in Directors |->
                         IF d \in InProxies THEN DefaultPermissions ELSE NoMode]
    /\ S \in [Sides -> SeqsUpTo(MaxLen)]
    /\ \A x \in Sides : Len(S[x]) <= MaxLenOf(x)
    /\ sent = [x \in Sides |-> 0]
    /\ inq = [x \in Sides |-> <<>>]
    /\ buf = [x \in Sides |-> <<>>]
    /\ recv = [x \in Sides |-> <<>>]
    /\ peer = [x \in Sides |-> "open"]
    /\ conn = [x \in Sides |-> "open"]
    /\ half = [x \in Sides |-> "copying"]

NextBridge ==
    \/ \E x \in Sides : Send(x)
    \/ \E x \in Sides : PeerClose(x)
    \/ \E x \in Sides : CopyRead(x)
    \/ \E x \in Sides : CopyWrite(x)
    \/ \E x \in Sides : CopyEnd(x)
    \/ Teardown

\* The peers and the goroutines of the bridge keep running: a write, a read, a
\* copy step or the teardown that stays possible is eventually done.  Closing
\* or breaking a connection is left to the peer.
FairBridge ==
    /\ InitBridge
    /\ [][NextBridge]_vars
    /\ \A x \in Sides :
          /\ WF_vars(Send(x))
          /\ WF_vars(CopyRead(x))
          /\ WF_vars(CopyWrite(x))
          /\ WF_vars(CopyEnd(x))
    /\ WF_vars(Teardown)

\* The sessions a director has accepted.
Accepted(d) == {c \in ConnIds : conns[c].dir = d}

\* C1: inbound, an accepted local connection whose task ended on a failed dial
\* (so without a bridge) is not left open.
C1_InboundDialFailureClosesLocal ==
    \A c \in ConnIds :
        (conns[c].dir \in InProxies /\ conns[c].st = "dialFailed") => conns[c].acc # "open"

\* C2: outbound, an accepted network connection whose dial to the local socket
\* failed is not left open with no task owning it.
C2_OutboundDialFailureClosesRemote ==
    \A c \in ConnIds :
        (conns[c].dir \in OutProxies /\ conns[c].st = "dialFailed" /\ cur[conns[c].dir] # c)
            => conns[c].acc # "open"

\* C3: for either director the accept loop is stopped only after its own Accept
\* returned an error; whatever dials and bridges failed or ended, a started loop
\* whose Accept has not failed is running, a loop at Accept accepts the next
\* connection, and a pending dial can succeed and be bridged.
C3_LoopStopsOnlyOnAcceptError ==
    \A d \in Directors :
        /\ loop[d] = "stopped" => acceptErr[d]
        /\ (ctor[d] = "returnedNil" /\ ~acceptErr[d]) => loop[d] \in {"accept", "dial"}
        /\ (loop[d] = "accept" /\ nconn < MaxConns) =>
               ENABLED (InboundAccept(d) \/ OutboundAccept(d))
        /\ \A c \in Accepted(d) :
               conns[c].st = "dialing" =>
                   ENABLED ((InboundDialOk(c) \/ OutboundDialOk(d)) /\ conns'[c].st = "bridging")

C3_Witness ==
    \E d \in Directors : \E c1, c2 \in Accepted(d) :
        /\ c1 < c2
        /\ conns[c1].st = "dialFailed"
        /\ conns[c2].st = "bridging"
        /\ loop[d] = "accept"

\* C4: for either director, once Accept has returned an error the loop is stopped,
\* stays stopped in every later step, and the director accepts no further
\* connection (so starts no further per-connection task).
C4_AcceptErrorTerminal ==
    [][\A d \in Directors :
           /\ acceptErr'[d] => loop'[d] = "stopped"
           /\ acceptErr[d] =>
                 /\ loop[d] = "stopped"
                 /\ acceptErr'[d]
                 /\ {c \in ConnIds : conns'[c].dir = d} = Accepted(d)]_vars

C4_Witness ==
    \E p \in InProxies : \E o \in OutProxies :
        /\ acceptErr[p] /\ loop[p] = "stopped"
        /\ acceptErr[o] /\ loop[o] = "stopped"
        /\ nconn < MaxConns

\* C5: inbound, the lock is held from the successful UnixSocketListen until the
\* accept loop exits, Unlock has not been called before the loop exits, and once
\* the loop has exited Unlock has been called exactly once and the lock is free.
C5_LockHeldWhileListening ==
    \A p \in InProxies :
        /\ ctor[p] = "listened" => held[p]
        /\ loop[p] \in {"accept", "dial"} => held[p]
        /\ loop[p] # "stopped" => unlocks[p] = 0
        /\ loop[p] = "stopped" => (unlocks[p] = 1 /\ ~held[p])

C5_Witness ==
    \E p \in InProxies :
        /\ loop[p] = "stopped"
        /\ unlocks[p] = 1
        /\ ~held[p]
        /\ Accepted(p) # {}

\* C6: inbound, once the accept loop has stopped the listener returned by
\* UnixSocketListen is closed; it is open while the loop runs.
C6_ListenerClosedWithLoop ==
    \A p \in InProxies :
        /\ loop[p] = "stopped" => lis[p] = "closed"
        /\ loop[p] \in {"accept", "dial"} => lis[p] = "open"

C6_Witness ==
    \E p \in InProxies : loop[p] = "stopped" /\ lis[p] = "closed" /\ acceptErr[p]

\* C7: a constructor whose listen step failed has returned the error, has started
\* no accept loop, holds no lock and has no listener or session; a constructor
\* has returned nil only with a listener created and the accept loop started.
C7_SetupFailureLeavesNothing ==
    \A d \in Directors :
        /\ ctorErr[d] # "none" => ctor[d] = "returnedErr"
        /\ ctor[d] = "returnedErr" =>
              /\ ctorErr[d] # "none"
              /\ loop[d] = "none"
              /\ ~held[d]
              /\ lis[d] = "none"
              /\ Accepted(d) = {}
        /\ ctor[d] = "returnedNil" =>
              /\ ctorErr[d] = "none"
              /\ lis[d] # "none"
              /\ loop[d] # "none"

C7_Witness ==
    \E p, q \in InProxies : \E o \in OutProxies :
        /\ ctor[p] = "returnedErr"
        /\ ctor[q] = "returnedNil"
        /\ ctor[o] = "returnedErr"

\* The inbound proxies configured on the socket file f.
OnFile(f) == {p \in InProxies : Filename(p) = f}

\* C8: at every moment at most one inbound proxy holds the lock of a socket file;
\* an acquisition made while the file is locked fails at once with AlreadyInUse
\* and no other acquisition does; and as long as no holder has released and the
\* filesystem has not failed, of the proxies that have all tried exactly one
\* has succeeded.
C8_SocketLockExclusive ==
    /\ \A p, q \in InProxies :
           (p # q /\ Filename(p) = Filename(q)) => ~(held[p] /\ held[q])
    /\ \A p \in InProxies :
           ctor[p] # "idle" =>
               /\ sawHeld[p] <=> ctorErr[p] = "AlreadyInUse"
               /\ sawHeld[p] => ctor[p] = "returnedErr"
    /\ \A p \in InProxies :
           LET ps == OnFile(Filename(p)) IN
             (\A q \in ps : ctor[q] # "idle" /\ unlocks[q] = 0 /\ ctorErr[q] # "IOError")
                 => Cardinality({q \in ps : ctorErr[q] = "none"}) = 1

C8_Witness ==
    \E p, q \in InProxies :
        /\ p # q
        /\ Filename(p) = Filename(q)
        /\ held[p] /\ loop[p] = "accept"
        /\ ctor[q] = "returnedErr" /\ ctorErr[q] = "AlreadyInUse" /\ sawHeld[q]

\* C9: outbound, while the dial to the local socket for an accepted connection has
\* not returned, the accept loop is at Accept and can accept the next connection.
C9_OutboundDialDoesNotBlockAccept ==
    \A o \in OutProxies : \A c \in Accepted(o) :
        (conns[c].st = "dialing" /\ ~acceptErr[o]) =>
            /\ loop[o] = "accept"
            /\ nconn < MaxConns => ENABLED OutboundAccept(o)

\* C10: inbound, while a session's dial or bridge is pending, the accept loop
\* (unless its Accept failed) is at Accept and accepts the next connection, and
\* every other session can take its own next step: its dial can return either
\* way and its bridge can end.
C10_InboundSessionsIndependent ==
    \A p \in InProxies : \A c \in Accepted(p) :
        conns[c].st \in {"dialing", "bridging"} =>
            /\ ~acceptErr[p] => loop[p] = "accept"
            /\ (~acceptErr[p] /\ nconn < MaxConns) => ENABLED InboundAccept(p)
            /\ \A c2 \in Accepted(p) \ {c} :
                  /\ conns[c2].st = "dialing" =>
                        (ENABLED InboundDialOk(c2) /\ ENABLED InboundDialFail(c2))
                  /\ conns[c2].st = "bridging" => ENABLED BridgeConns(c2)

C10_Witness ==
    \E p \in InProxies : \E c1, c2 \in Accepted(p) :
        /\ c1 < c2
        /\ conns[c1].st = "dialing"
        /\ conns[c2].st = "done"
        /\ loop[p] = "accept"

\* C11: the step in which one director's Accept fails and its loop stops changes
\* nothing of any other director: its constructor and loop positions, its
\* listener, its lock and every one of its sessions stay as they were.
C11_ListenerDeathIsolated ==
    [][\A d, e \in Directors :
           (d # e /\ ~acceptErr[d] /\ acceptErr'[d]) =>
               /\ loop'[e] = loop[e]
               /\ ctor'[e] = ctor[e]
               /\ lis'[e] = lis[e]
               /\ held'[e] = held[e]
               /\ acceptErr'[e] = acceptErr[e]
               /\ cur'[e] = cur[e]
               /\ \A c \in ConnIds : conns[c].dir = e => conns'[c] = conns[c]]_vars

C11_Witness ==
    \E o \in OutProxies : \E p \in InProxies :
        /\ acceptErr[o] /\ loop[o] = "stopped"
        /\ loop[p] = "accept" /\ held[p] /\ lis[p] = "open"
        /\ \E c \in Accepted(p) : conns[c].st = "bridging" /\ conns[c].acc = "open"

\* C19: the step in which a director's Accept fails leaves every session the
\* director has spawned as it was (nothing is closed or cancelled); afterwards
\* each such session still takes its own steps, and for an inbound proxy the lock
\* is free while those sessions are still open.
C19_SessionsOutliveLoop ==
    [][\A d \in Directors :
           /\ (~acceptErr[d] /\ acceptErr'[d]) =>
                 \A c \in ConnIds : conns[c].dir = d => conns'[c] = conns[c]
           /\ (acceptErr[d] /\ loop[d] = "stopped") =>
                 \A c \in ConnIds : conns[c].dir = d =>
                     /\ conns[c].st = "dialing" =>
                            (ENABLED InboundDialOk(c) /\ ENABLED InboundDialFail(c))
                     /\ conns[c].st = "bridging" => ENABLED BridgeConns(c)
                     /\ (conns[c].st \in {"dialing", "bridging"} /\ d \in InProxies) =>
                            (~held[d] /\ conns[c].acc = "open")]_vars

C19_Witness ==
    \E p \in InProxies : \E c1, c2 \in Accepted(p) :
        /\ loop[p] = "stopped" /\ ~held[p] /\ unlocks[p] = 1
        /\ conns[c1].st = "dialing" /\ conns[c1].acc = "open"
        /\ conns[c2].st = "bridging" /\ conns[c2].dld = "open"

\* C14 as stated: the metadata advertised by a listening outbound proxy is
\* exactly {kind: "unix-proxy", path: <the configured socket path>}.
C14_AdvertisesKindAndPath ==
    \A o \in OutProxies :
        lis[o] # "none" => advert[o] = {<<"kind", "unix-proxy">>, <<"path", Filename(o)>>}

\* C14 as amended: the metadata advertised by a listening outbound proxy is
\* exactly {type: "Unix Proxy", filename: <the configured socket filename>}, and
\* nothing is advertised before the listen step succeeded.
C14_AdvertisesTypeAndFilename ==
    \A o \in OutProxies :
        /\ lis[o] # "none" =>
              advert[o] = {<<"type", "Unix Proxy">>, <<"filename", Filename(o)>>}
        /\ lis[o] = "none" => advert[o] = {}

C14_Witness ==
    \E o \in OutProxies :
        /\ lis[o] = "open"
        /\ ctor[o] = "returnedNil"
        /\ <<"filename", Filename(o)>> \in advert[o]

\* C18: every accepted connection has had exactly one dial call, is given to
\* BridgeConns at most once, and BridgeConns is given an accepted connection only
\* together with the connection dialed for it; the sessions that are bridged are
\* exactly those pairs.
C18_NoCrossWiring ==
    /\ \A c \in ConnIds : dials[c] = IF conns[c].st = "none" THEN 0 ELSE 1
    /\ \A c \in ConnIds : Cardinality({pr \in bridged : pr[1] = c}) <= 1
    /\ \A c \in ConnIds : Cardinality({pr \in bridged : pr[2] = c}) <= 1
    /\ \A pr \in bridged : pr[1] = pr[2]
    /\ \A c \in ConnIds : conns[c].st \in {"bridging", "done"} <=> <<c, c>> \in bridged

C18_Witness ==
    \E p \in InProxies : \E o \in OutProxies :
      \E c1, c2 \in Accepted(p) : \E c3 \in Accepted(o) :
        /\ c1 < c2
        /\ conns[c1].st = "bridging"
        /\ conns[c2].st = "bridging"
        /\ conns[c3].st = "bridging"
        /\ {<<c1, c1>>, <<c2, c2>>, <<c3, c3>>} \subseteq bridged

\* C15: a director whose configuration lacks a required field is never built:
\* its construction does not go past the configuration, no lock is held, no
\* listener exists, nothing is advertised and no accept loop is started.
C15_MissingFieldFailsConstruction ==
    \A d \in Directors :
        cfg[d].missing # "none" =>
            /\ ctor[d] \notin {"listened", "returnedNil"}
            /\ ~held[d]
            /\ lis[d] = "none"
            /\ advert[d] = {}
            /\ loop[d] = "none"

\* C16: UnixSocketListen is called with 0o600 (384) when the configuration has
\* no permissions value and with exactly the configured value when it has one;
\* a held lock was acquired by such a call.
C16_PermissionsDefaultAndPassThrough ==
    \A p \in InProxies :
        /\ lockMode[p] # NoMode =>
              lockMode[p] = IF cfg[p].perms = NoPerm THEN 384 ELSE cfg[p].perms
        /\ ctor[p] \in {"listened", "returnedNil"} => lockMode[p] # NoMode

C16_Witness ==
    \E p, q \in InProxies :
        /\ cfg[p].perms = NoPerm /\ lockMode[p] = 384 /\ held[p]
        /\ cfg[q].perms = 420 /\ lockMode[q] = 420 /\ cfg[q].via = "setup"

\* C17: a director whose TLS configuration does not resolve gets no further than
\* returning that error: UnixSocketListen and ListenAndAdvertise are never
\* called for it, no lock is held, no listener exists, nothing is advertised and
\* no loop is started; so whenever one of them has been called the TLS
\* configuration had been resolved.
C17_TLSResolvedFirst ==
    \A d \in Directors :
        /\ ~cfg[d].tls =>
              /\ ctor[d] \in {"config", "returnedErr"}
              /\ ctorErr[d] \in {"none", "TLSError"}
              /\ permissions[d] = NoMode
              /\ lockMode[d] = NoMode
              /\ ~sawHeld[d]
              /\ ~held[d]
              /\ lis[d] = "none"
              /\ advert[d] = {}
              /\ loop[d] = "none"
        /\ ctorErr[d] = "TLSError" => (~cfg[d].tls /\ ctor[d] = "returnedErr")
        /\ (cfg[d].tls /\ ctor[d] = "returnedErr") => ctorErr[d] # "TLSError"

C17_Witness ==
    \E p, q \in InProxies : \E o \in OutProxies :
        /\ ~cfg[p].tls /\ ctor[p] = "returnedErr" /\ ctorErr[p] = "TLSError"
        /\ ~cfg[o].tls /\ ctor[o] = "returnedErr" /\ ctorErr[o] = "TLSError"
        /\ cfg[q].tls /\ held[q] /\ loop[q] = "accept"

\* s is an initial part of t.
IsPrefix(s, t) == Len(s) <= Len(t) /\ SubSeq(t, 1, Len(s)) = s

\* The byte sequences sent by side A and by side B.
S1 == S["A"]
S2 == S["B"]

\* C12: once a direction of a bridge has seen end-of-stream or an error, both
\* connections of the session are eventually closed, the one that did not fail
\* too, and they stay closed.
C12_BridgeTeardownClosesBoth ==
    /\ (\E x \in Sides : half[x] = "ended") ~> (\A x \in Sides : conn[x] = "closed")
    /\ [][\A x \in Sides : conn[x] = "closed" => conn'[x] = "closed"]_vars
    /\ [](\A x \in Sides : conn[x] = "closed" => \E y \in Sides : half[y] = "ended")

C12_Witness ==
    /\ half["A"] = "ended"
    /\ half["B"] = "copying"
    /\ peer["A"] = "eof"
    /\ peer["B"] = "open"
    /\ conn["A"] = "closed"
    /\ conn["B"] = "closed"
    /\ Len(recv["B"]) = MaxLen

\* C13: what side B has received is always an initial part of S1 and what side A
\* has received an initial part of S2; and unless a side closes or breaks, B
\* eventually has all of S1 and A all of S2.
C13_BytesPreserved ==
    /\ [](IsPrefix(recv["B"], S1) /\ IsPrefix(recv["A"], S2))
    /\ <>((\E x \in Sides : peer[x] # "open") \/ (recv["B"] = S1 /\ recv["A"] = S2))

C13_Witness ==
    /\ Len(S1) = MaxLen
    /\ Len(S2) = MaxLenBack
    /\ S1[1] # S1[2]
    /\ S2[1] # S1[1]
    /\ recv["B"] = S1
    /\ recv["A"] = S2
    /\ \A x \in Sides : peer[x] = "open" /\ conn[x] = "open"

====
